---- MODULE Spec2Model ----
(***************************************************************************)
(* Model of cometblue/gatt/device_manager.py: the DeviceManager discovery  *)
(* state machine running on the asyncio loop thread, and the Device        *)
(* connection operations issued by blocking caller threads.                *)
(***************************************************************************)
EXTENDS Integers, Sequences, FiniteSets, TLC

\* ------------------------------------------------------------------ bounds
\* Number of start_discovery() calls explored (each creates one scan task).
MaxStarts == 2

\* DeviceManager instances and advertised MAC addresses.
Managers == {"m1", "m2"}
Addresses == {"a1", "a2"}

TaskIds == 1 .. MaxStarts

\* Number of find_device_by_address lookups explored for one Device (a lookup
\* that raises is not cached, so the next access looks up again).
MaxLookups == 2

\* Caller threads operating on the Device.
Threads == {"t1", "t2"}

\* ------------------------------------------------------------------ state
VARIABLES
    _devices,             \* DeviceManager._devices: the class-level dict, one object for all managers
    _scanner_task,        \* per manager: id of the scan task held in self._scanner_task, 0 = None
    _stop_scanning_event, \* per manager: id of the asyncio.Event held in self._stop_scanning_event, 0 = None
    eventSet,             \* per Event (named after the task that created it): its is_set() flag
    waiters,              \* per Event: the tasks suspended in Event.wait(), in arrival order
    task,                 \* per scan task: its manager, its position and the Event it waits on
    ready,                \* the loop's FIFO of ready callbacks (loop._ready)
    nextTask,             \* id of the next scan task
    callerPc,             \* position of the caller thread inside stop_discovery()
    callerMgr,            \* the manager the caller thread is operating on
    stopFut,              \* the future of the _stop_discovery() coroutine the caller waits on
    lastStop,             \* how the last stop_discovery() call ended
    stoppedSince,         \* per manager: stop_discovery() returned and start_discovery() was not called since
    makeCalls,            \* per address: number of make_device() invocations
    madeNone,             \* per address: make_device() returned None for it
    readvertised,         \* per address: a callback found the address already in the dict
    nextDev,              \* id of the next Device object
    pending_devices,      \* the module-global pending_devices counter
    _bleak_device,        \* Device._bleak_device, the cached_property: "unset", "found" or "None"
    _bleak_client,        \* Device._bleak_client, the cached_property: "unset", "client" or "None"
    link,                 \* BleakClient.is_connected of the device's client
    lookups,              \* number of find_device_by_address lookups submitted for the device
    resolutions,          \* number of lookups of the device that finished: counted, or raised
    thr,                  \* per caller thread: the Device method it runs and where it is in it
    loopState,            \* manager.loop: "none", "published", "running", "stopping" or "stopped"
    gatt                  \* per caller thread: the blocking call it makes and where it is in it

mvars == <<_devices, _scanner_task, _stop_scanning_event, eventSet, waiters, task,
           ready, nextTask, callerPc, callerMgr, stopFut, lastStop, stoppedSince,
           makeCalls, madeNone, readvertised, nextDev>>

dvars == <<_bleak_device, _bleak_client, link, lookups, resolutions, thr>>

bvars == <<loopState, gatt>>

vars == <<mvars, pending_devices, dvars, bvars>>

\* ------------------------------------------------------------------ values
NoKey == [kind |-> "nokey", id |-> 0, mgr |-> "none"]

\* What make_device() may hand back: None, or a fresh Device built by manager m.
NoneValue == [kind |-> "None", id |-> 0, mgr |-> "none"]

DeviceValue(id, m) == [kind |-> "Device", id |-> id, mgr |-> m]

ScanCo(i, m) == [type |-> "scan", id |-> i, mgr |-> m]

StopCo(m) == [type |-> "stop", id |-> 0, mgr |-> m]

NoTask == [mgr |-> "none", pc |-> "unborn", ev |-> 0, err |-> FALSE]

NoStop == [mgr |-> "none", outcome |-> "none", task |-> 0, taskFailed |-> FALSE, logged |-> FALSE]

\* ------------------------------------------------------------------ init
InitManager ==
    /\ _devices = [a \in Addresses |-> NoKey]
    /\ _scanner_task = [m \in Managers |-> 0]
    /\ _stop_scanning_event = [m \in Managers |-> 0]
    /\ eventSet = [i \in TaskIds |-> FALSE]
    /\ waiters = [i \in TaskIds |-> <<>>]
    /\ task = [i \in TaskIds |-> NoTask]
    /\ ready = <<>>
    /\ nextTask = 1
    /\ callerPc = "idle"
    /\ callerMgr = "none"
    /\ stopFut = "none"
    /\ lastStop = NoStop
    /\ stoppedSince = [m \in Managers |-> FALSE]
    /\ makeCalls = [a \in Addresses |-> 0]
    /\ madeNone = [a \in Addresses |-> FALSE]
    /\ readvertised = [a \in Addresses |-> FALSE]
    /\ nextDev = 1

\* A Device that no thread has touched yet.
IdleThread == [op |-> "none", at |-> "idle", hooks |-> <<>>, ret |-> "none", res |-> "none",
               connects |-> 0, disconnects |-> 0, before |-> FALSE, tmp |-> 0]

\* A caller thread that is in no blocking call.
IdleCall == [op |-> "none", at |-> "idle", arg |-> "none", co |-> "none", out |-> "none",
             val |-> "none", rb |-> "none", hooks |-> <<>>, ret |-> "none",
             retval |-> "none", early |-> FALSE]

InitDevice ==
    /\ gatt = [t \in Threads |-> IdleCall]
    /\ _bleak_device = "unset"
    /\ _bleak_client = "unset"
    /\ link = FALSE
    /\ lookups = 0
    /\ resolutions = 0
    /\ thr = [t \in Threads |-> IdleThread]

\* The managers are constructed, the loop is running, nothing is discovered.
Init ==
    /\ InitManager
    /\ InitDevice
    /\ pending_devices = 0
    /\ loopState = "running"

\* One Device has been constructed (Device.__init__ counted it as pending).
InitOneDevice ==
    /\ InitManager
    /\ InitDevice
    /\ pending_devices = 1
    /\ loopState = "running"

\* ------------------------------------------------------------------ registry
\* devices(): the values of the dict.
devices(m) == {_devices[a] : a \in {x \in Addresses : _devices[x].kind # "nokey"}}

\* `device.address not in self._devices` negated: the key test of the callback.
InRegistryTruthy(a) == _devices[a].kind = "Device"
InRegistry(a) == _devices[a].kind # "nokey"

\* _discovery_callback of manager m for an advertisement of address a; made is
\* what make_device() returns when it is called (a Device or None).
DiscoveryCallback(m, a, made) ==
    IF InRegistry(a)
    THEN /\ readvertised' = [readvertised EXCEPT ![a] = TRUE]
         /\ UNCHANGED <<_devices, makeCalls, madeNone, nextDev, pending_devices>>
    ELSE /\ makeCalls' = [makeCalls EXCEPT ![a] = @ + 1]
         /\ UNCHANGED readvertised
         /\ IF made = "Device"
            THEN /\ _devices' = [_devices EXCEPT ![a] = DeviceValue(nextDev, m)]
                 /\ nextDev' = nextDev + 1
                 /\ pending_devices' = pending_devices + 1
                 /\ UNCHANGED madeNone
            ELSE /\ _devices' = [_devices EXCEPT ![a] = NoneValue]
                 /\ madeNone' = [madeNone EXCEPT ![a] = TRUE]
                 /\ UNCHANGED <<nextDev, pending_devices>>

\* ------------------------------------------------------------------ scan task
\* The scanner of task i delivers advertisements from the completion of its
\* start to the completion of its stop.
ScannerActive(i) == task[i].pc \in {"opened", "waiting", "woken", "closing"}

\* self._stop_scanning_event = asyncio.Event()
NewStopEventLocal(m, i) == _stop_scanning_event
NewStopEvent(m, i) == [_stop_scanning_event EXCEPT ![m] = i]

\* run_forever() is executing callbacks: the loop runs, or it finishes the
\* iteration in which loop.stop() was called.
LoopRunning == loopState \in {"running", "stopping"}

HeadIs(kind, co) == LoopRunning /\ ready # <<>> /\ Head(ready) = [kind |-> kind, co |-> co]

\* start_discovery(): hand the scan coroutine to the loop, keep its future.
StartDiscovery(m) ==
    /\ callerPc = "idle"
    /\ nextTask <= MaxStarts
    /\ task' = [task EXCEPT ![nextTask] = [NoTask EXCEPT !.mgr = m, !.pc = "created"]]
    /\ ready' = Append(ready, [kind |-> "create", co |-> ScanCo(nextTask, m)])
    /\ _scanner_task' = [_scanner_task EXCEPT ![m] = nextTask]
    /\ nextTask' = nextTask + 1
    /\ stoppedSince' = [stoppedSince EXCEPT ![m] = FALSE]
    /\ lastStop' = NoStop
    /\ UNCHANGED <<_devices, _stop_scanning_event, eventSet, waiters, callerPc, callerMgr,
                   stopFut, makeCalls, madeNone, nextDev, pending_devices, readvertised>>
    /\ UNCHANGED <<dvars, bvars>>

\* The callback queued by run_coroutine_threadsafe: wrap the coroutine in a
\* task, whose first step is queued behind everything already ready.
LoopCreateTask ==
    /\ LoopRunning
    /\ ready # <<>>
    /\ Head(ready).kind = "create"
    /\ ready' = Append(Tail(ready), [kind |-> "step", co |-> Head(ready).co])
    /\ UNCHANGED <<_devices, _scanner_task, _stop_scanning_event, eventSet, waiters, task,
                   nextTask, callerPc, callerMgr, stopFut, lastStop, stoppedSince,
                   makeCalls, madeNone, nextDev, pending_devices, readvertised>>
    /\ UNCHANGED <<dvars, bvars>>

\* _start_discovery, first step: create the Event, enter the scanner context
\* (suspends until the transport has started the scanner).
ScanFirstStep(i) ==
    /\ HeadIs("step", ScanCo(i, task[i].mgr))
    /\ task[i].pc = "created"
    /\ _stop_scanning_event' = NewStopEvent(task[i].mgr, i)
    /\ task' = [task EXCEPT ![i].pc = "opening"]
    /\ ready' = Tail(ready)
    /\ UNCHANGED <<_devices, _scanner_task, eventSet, waiters, nextTask, callerPc, callerMgr,
                   stopFut, lastStop, stoppedSince, makeCalls, madeNone, nextDev,
                   pending_devices, readvertised>>
    /\ UNCHANGED <<dvars, bvars>>

\* The transport finishes starting the scanner of task i (ok) or fails to.
ScannerStarted(i, ok) ==
    /\ task[i].pc = "opening"
    /\ task' = [task EXCEPT ![i].pc = IF ok THEN "opened" ELSE "openfail"]
    /\ ready' = Append(ready, [kind |-> "step", co |-> ScanCo(i, task[i].mgr)])
    /\ UNCHANGED <<_devices, _scanner_task, _stop_scanning_event, eventSet, waiters,
                   nextTask, callerPc, callerMgr, stopFut, lastStop, stoppedSince,
                   makeCalls, madeNone, nextDev, pending_devices, readvertised>>
    /\ UNCHANGED <<dvars, bvars>>

\* _start_discovery resumed inside the scanner context:
\* await self._stop_scanning_event.wait() on whatever Event the attribute
\* holds now; an Event already set does not suspend, and the context exit
\* asks the transport to stop the scanner.
ScanAfterOpen(i) ==
    /\ HeadIs("step", ScanCo(i, task[i].mgr))
    /\ task[i].pc = "opened"
    /\ LET e == _stop_scanning_event[task[i].mgr] IN
         IF e = 0
         THEN /\ task' = [task EXCEPT ![i].pc = "closing", ![i].err = TRUE]
              /\ UNCHANGED waiters
         ELSE IF eventSet[e]
              THEN /\ task' = [task EXCEPT ![i].pc = "closing"]
                   /\ UNCHANGED waiters
              ELSE /\ task' = [task EXCEPT ![i].pc = "waiting", ![i].ev = e]
                   /\ waiters' = [waiters EXCEPT ![e] = Append(@, i)]
    /\ ready' = Tail(ready)
    /\ UNCHANGED <<_devices, _scanner_task, _stop_scanning_event, eventSet, nextTask,
                   callerPc, callerMgr, stopFut, lastStop, stoppedSince, makeCalls,
                   madeNone, nextDev, pending_devices, readvertised>>
    /\ UNCHANGED <<dvars, bvars>>

\* _start_discovery resumed by Event.set(): leave the scanner context.
ScanAfterWake(i) ==
    /\ HeadIs("step", ScanCo(i, task[i].mgr))
    /\ task[i].pc = "woken"
    /\ task' = [task EXCEPT ![i].pc = "closing"]
    /\ ready' = Tail(ready)
    /\ UNCHANGED <<_devices, _scanner_task, _stop_scanning_event, eventSet, waiters,
                   nextTask, callerPc, callerMgr, stopFut, lastStop, stoppedSince,
                   makeCalls, madeNone, nextDev, pending_devices, readvertised>>
    /\ UNCHANGED <<dvars, bvars>>

\* The transport finishes stopping the scanner of task i (ok) or fails to.
ScannerStopped(i, ok) ==
    /\ task[i].pc = "closing"
    /\ task' = [task EXCEPT ![i].pc = IF ok THEN "closed" ELSE "closefail"]
    /\ ready' = Append(ready, [kind |-> "step", co |-> ScanCo(i, task[i].mgr)])
    /\ UNCHANGED <<_devices, _scanner_task, _stop_scanning_event, eventSet, waiters,
                   nextTask, callerPc, callerMgr, stopFut, lastStop, stoppedSince,
                   makeCalls, madeNone, nextDev, pending_devices, readvertised>>
    /\ UNCHANGED <<dvars, bvars>>

\* _start_discovery ends: normally, or with the failure of the scanner start,
\* of the body or of the scanner stop as the task's exception.
ScanFinish(i) ==
    /\ HeadIs("step", ScanCo(i, task[i].mgr))
    /\ task[i].pc \in {"openfail", "closed", "closefail"}
    /\ task' = [task EXCEPT ![i].pc = IF task[i].pc = "closed" /\ ~task[i].err
                                      THEN "done" ELSE "failed"]
    /\ ready' = Tail(ready)
    /\ UNCHANGED <<_devices, _scanner_task, _stop_scanning_event, eventSet, waiters,
                   nextTask, callerPc, callerMgr, stopFut, lastStop, stoppedSince,
                   makeCalls, madeNone, nextDev, pending_devices, readvertised>>
    /\ UNCHANGED <<dvars, bvars>>

\* The transport delivers an advertisement of address a to the scanner of
\* task i, which runs the manager's _discovery_callback on the loop thread.
Advertise(i, a, made) ==
    /\ ScannerActive(i)
    /\ DiscoveryCallback(task[i].mgr, a, made)
    /\ UNCHANGED <<_scanner_task, _stop_scanning_event, eventSet, waiters, task, ready,
                   nextTask, callerPc, callerMgr, stopFut, lastStop, stoppedSince>>
    /\ UNCHANGED <<dvars, bvars>>

\* ------------------------------------------------------------------ stop_discovery
RECURSIVE WakeAll(_, _)
\* Event.set() marks every waiter woken.
WakeAll(ws, tk) ==
    IF ws = <<>> THEN tk
    ELSE WakeAll(Tail(ws), [tk EXCEPT ![Head(ws)].pc = "woken"])

RECURSIVE WakeSteps(_)
\* ... and queues the resumption of each, in arrival order.
WakeSteps(ws) ==
    IF ws = <<>> THEN <<>>
    ELSE <<[kind |-> "step", co |-> ScanCo(Head(ws), task[Head(ws)].mgr)]>> \o WakeSteps(Tail(ws))

\* stop_discovery(), first line: run_blocking(self._stop_discovery()).
StopDiscoveryCall(m) ==
    /\ callerPc = "idle"
    /\ callerPc' = "run_blocking"
    /\ callerMgr' = m
    /\ stopFut' = "pending"
    /\ ready' = Append(ready, [kind |-> "create", co |-> StopCo(m)])
    /\ lastStop' = NoStop
    /\ UNCHANGED <<_devices, _scanner_task, _stop_scanning_event, eventSet, waiters, task,
                   nextTask, stoppedSince, makeCalls, madeNone, nextDev,
                   pending_devices, readvertised>>
    /\ UNCHANGED <<dvars, bvars>>

\* _stop_discovery on the loop: self._stop_scanning_event.set(); the second
\* line binds a local name and changes nothing. With the attribute still None
\* the coroutine raises.
StopCoroutineStep ==
    /\ LoopRunning
    /\ ready # <<>>
    /\ Head(ready).kind = "step"
    /\ Head(ready).co.type = "stop"
    /\ LET m == Head(ready).co.mgr
           e == _stop_scanning_event[m] IN
         IF e = 0
         THEN /\ stopFut' = "raised"
              /\ ready' = Tail(ready)
              /\ UNCHANGED <<eventSet, waiters, task>>
         ELSE /\ stopFut' = "ok"
              /\ eventSet' = [eventSet EXCEPT ![e] = TRUE]
              /\ task' = WakeAll(waiters[e], task)
              /\ ready' = Tail(ready) \o WakeSteps(waiters[e])
              /\ waiters' = [waiters EXCEPT ![e] = <<>>]
    /\ UNCHANGED <<_devices, _scanner_task, _stop_scanning_event, nextTask, callerPc,
                   callerMgr, lastStop, stoppedSince, makeCalls, madeNone, nextDev,
                   pending_devices, readvertised>>
    /\ UNCHANGED <<dvars, bvars>>

\* run_blocking returns to stop_discovery, or re-raises the coroutine's
\* failure, which leaves stop_discovery before its try block.
StopRunBlockingReturns ==
    /\ callerPc = "run_blocking"
    /\ stopFut # "pending"
    /\ IF stopFut = "raised"
       THEN /\ callerPc' = "idle"
            /\ lastStop' = [mgr |-> callerMgr, outcome |-> "raised",
                            task |-> _scanner_task[callerMgr],
                            taskFailed |-> FALSE, logged |-> FALSE]
       ELSE /\ callerPc' = "task_result"
            /\ UNCHANGED lastStop
    /\ stopFut' = "none"
    /\ UNCHANGED <<_devices, _scanner_task, _stop_scanning_event, eventSet, waiters, task,
                   ready, nextTask, callerMgr, stoppedSince, makeCalls, madeNone, nextDev,
                   pending_devices, readvertised>>
    /\ UNCHANGED <<dvars, bvars>>

\* try: self._scanner_task.result() / except Exception: log it.
StopOutcomeNoCatch(failed) == IF failed THEN "raised" ELSE "returned"
StopOutcome(failed) == "returned"

\* stop_discovery, the try block and what follows it. The caller blocks in
\* result() until the scan task has ended; result() on None raises too.
StopTaskResult ==
    /\ callerPc = "task_result"
    /\ LET m == callerMgr
           t == _scanner_task[m]
           failed == IF t = 0 THEN TRUE ELSE task[t].pc = "failed"
           out == StopOutcome(failed) IN
         /\ t # 0 => task[t].pc \in {"done", "failed"}
         /\ lastStop' = [mgr |-> m, outcome |-> out, task |-> t,
                         taskFailed |-> (t # 0 /\ failed),
                         logged |-> (failed /\ out = "returned")]
         /\ IF out = "returned"
            THEN /\ _scanner_task' = [_scanner_task EXCEPT ![m] = 0]
                 /\ stoppedSince' = [stoppedSince EXCEPT ![m] = TRUE]
            ELSE UNCHANGED <<_scanner_task, stoppedSince>>
    /\ callerPc' = "idle"
    /\ UNCHANGED <<_devices, _stop_scanning_event, eventSet, waiters, task, ready, nextTask,
                   callerMgr, stopFut, makeCalls, madeNone, nextDev, pending_devices, readvertised>>
    /\ UNCHANGED <<dvars, bvars>>


\* ------------------------------------------------------------------ Device
Hook(name, arg) == [hook |-> name, arg |-> arg]

\* `if self._bleak_client:` the truthiness of the cached client.
ClientPresent == _bleak_client = "client"

\* is_connected(): self._bleak_client and self._bleak_client.is_connected
IsConnectedValue ==
    IF ~ClientPresent THEN "None" ELSE IF link THEN "True" ELSE "False"

Truthy(v) == v = "True"

\* What is_connected() would answer for the device as it is now.
IsConnectedNow == _bleak_device = "found" /\ link

\* connect(), the else branch of `if self._bleak_client`.
NoClientHooksMissing == <<>>
NoClientHooks == <<Hook("connect_failed", "No bleak client")>>

\* connect(), the try / except / else around the transport connect.
ConnectHooksSwapped(ok) ==
    IF ok THEN <<Hook("services_resolved", ""), Hook("connect_succeeded", "")>>
    ELSE <<Hook("connect_failed", "error")>>
ConnectHooksSwallowed(ok) ==
    IF ok THEN <<Hook("connect_succeeded", ""), Hook("services_resolved", "")>>
    ELSE <<>>
ConnectHooks(ok) ==
    IF ok THEN <<Hook("connect_succeeded", ""), Hook("services_resolved", "")>>
    ELSE <<Hook("connect_failed", "error")>>

\* disconnect(): if not self.is_connected(): self.disconnect_succeeded()
DisconnectHooksAlways(v) == <<Hook("disconnect_succeeded", "")>>
DisconnectHooks(v) == IF ~Truthy(v) THEN <<Hook("disconnect_succeeded", "")>> ELSE <<>>

\* Thread t calls connect(), disconnect() or is_connected(); each starts by
\* reading self._bleak_client.
DeviceCall(t, op) ==
    /\ thr[t].at \in {"idle", "done"}
    /\ lookups < MaxLookups \/ _bleak_device # "unset"
    /\ thr' = [thr EXCEPT ![t] = [IdleThread EXCEPT !.op = op, !.at = "resolve",
                                                     !.before = IsConnectedNow]]
    /\ UNCHANGED <<_bleak_device, _bleak_client, link, lookups, pending_devices, resolutions>>
    /\ UNCHANGED <<mvars, bvars>>

\* cached_property _bleak_client: the value is already stored.
ClientCached(t) ==
    /\ thr[t].at = "resolve"
    /\ _bleak_client # "unset"
    /\ thr' = [thr EXCEPT ![t].at = "body"]
    /\ UNCHANGED <<_bleak_device, _bleak_client, link, lookups, pending_devices, resolutions>>
    /\ UNCHANGED <<mvars, bvars>>

\* cached_property _bleak_client computed from a stored _bleak_device:
\* BleakClient(device) or None.
ClientFromDevice(t) ==
    /\ thr[t].at = "resolve"
    /\ _bleak_client = "unset"
    /\ _bleak_device # "unset"
    /\ _bleak_client' = IF _bleak_device = "found" THEN "client" ELSE "None"
    /\ thr' = [thr EXCEPT ![t].at = "body"]
    /\ UNCHANGED <<_bleak_device, link, lookups, pending_devices, resolutions>>
    /\ UNCHANGED <<mvars, bvars>>

\* cached_property _bleak_device, nothing stored: run_blocking(find_device_by_address).
LookupSubmit(t) ==
    /\ thr[t].at = "resolve"
    /\ _bleak_client = "unset"
    /\ _bleak_device = "unset"
    /\ lookups' = lookups + 1
    /\ thr' = [thr EXCEPT ![t].at = "lookup"]
    /\ UNCHANGED <<_bleak_device, _bleak_client, link, pending_devices, resolutions>>
    /\ UNCHANGED <<mvars, bvars>>

\* The loop runs the lookup: the transport finds the device, does not find it
\* (None), or fails.
FindDeviceByAddress(t, outcome) ==
    /\ thr[t].at = "lookup"
    /\ thr' = [thr EXCEPT ![t].at = "lookup_done", ![t].res = outcome]
    /\ UNCHANGED <<_bleak_device, _bleak_client, link, lookups, pending_devices, resolutions>>
    /\ UNCHANGED <<mvars, bvars>>

\* run_blocking re-raises the lookup's failure out of the method that touched
\* the property, or returns its result; the thread then loads the global
\* counter, the first half of `pending_devices = pending_devices - 1`.
LookupReturn(t) ==
    /\ thr[t].at = "lookup_done"
    /\ IF thr[t].res = "raise"
       THEN /\ thr' = [thr EXCEPT ![t].at = "done", ![t].ret = "raised"]
            /\ resolutions' = resolutions + 1
       ELSE /\ thr' = [thr EXCEPT ![t].at = "count", ![t].tmp = pending_devices]
            /\ UNCHANGED resolutions
    /\ UNCHANGED <<_bleak_device, _bleak_client, link, lookups, pending_devices>>
    /\ UNCHANGED <<mvars, bvars>>

\* The second half of the statement: the thread stores what it loaded, less one.
LookupCount(t) ==
    /\ thr[t].at = "count"
    /\ pending_devices' = thr[t].tmp - 1
    /\ resolutions' = resolutions + 1
    /\ thr' = [thr EXCEPT ![t].at = "store", ![t].tmp = 0]
    /\ UNCHANGED <<_bleak_device, _bleak_client, link, lookups>>
    /\ UNCHANGED <<mvars, bvars>>

\* The getter returns and cached_property stores the value in the instance.
LookupStore(t) ==
    /\ thr[t].at = "store"
    /\ _bleak_device' = thr[t].res
    /\ thr' = [thr EXCEPT ![t].at = "resolve"]
    /\ UNCHANGED <<_bleak_client, link, lookups, pending_devices, resolutions>>
    /\ UNCHANGED <<mvars, bvars>>

\* connect() after the client test: submit the transport connect, or report
\* the missing client.
ConnectBody(t) ==
    /\ thr[t].at = "body"
    /\ thr[t].op = "connect"
    /\ IF ClientPresent
       THEN thr' = [thr EXCEPT ![t].at = "connect_wait", ![t].connects = @ + 1]
       ELSE thr' = [thr EXCEPT ![t].at = "done", ![t].ret = "returned",
                               ![t].hooks = @ \o NoClientHooks]
    /\ UNCHANGED <<_bleak_device, _bleak_client, link, lookups, pending_devices, resolutions>>
    /\ UNCHANGED <<mvars, bvars>>

\* The loop runs BleakClient.connect(): it succeeds or fails.
TransportConnect(t, ok) ==
    /\ thr[t].at = "connect_wait"
    /\ link' = IF ok THEN TRUE ELSE link
    /\ thr' = [thr EXCEPT ![t].at = "connect_done", ![t].res = IF ok THEN "ok" ELSE "fail"]
    /\ UNCHANGED <<_bleak_device, _bleak_client, lookups, pending_devices, resolutions>>
    /\ UNCHANGED <<mvars, bvars>>

\* connect() after run_blocking: the hooks of the outcome.
ConnectReturn(t) ==
    /\ thr[t].at = "connect_done"
    /\ thr' = [thr EXCEPT ![t].at = "done", ![t].ret = "returned",
                          ![t].hooks = @ \o ConnectHooks(thr[t].res = "ok")]
    /\ UNCHANGED <<_bleak_device, _bleak_client, link, lookups, pending_devices, resolutions>>
    /\ UNCHANGED <<mvars, bvars>>

\* disconnect() after the client test: submit the transport disconnect when
\* there is a client.
DisconnectBody(t) ==
    /\ thr[t].at = "body"
    /\ thr[t].op = "disconnect"
    /\ IF ClientPresent
       THEN thr' = [thr EXCEPT ![t].at = "disconnect_wait", ![t].disconnects = @ + 1]
       ELSE thr' = [thr EXCEPT ![t].at = "check"]
    /\ UNCHANGED <<_bleak_device, _bleak_client, link, lookups, pending_devices, resolutions>>
    /\ UNCHANGED <<mvars, bvars>>

\* The loop runs BleakClient.disconnect(): it returns or raises, and the link
\* is down afterwards or is as it was.
TransportDisconnect(t, raises, down) ==
    /\ thr[t].at = "disconnect_wait"
    /\ link' = IF down THEN FALSE ELSE link
    /\ thr' = [thr EXCEPT ![t].at = "disconnect_done",
                          ![t].res = IF raises THEN "raise" ELSE "ok"]
    /\ UNCHANGED <<_bleak_device, _bleak_client, lookups, pending_devices, resolutions>>
    /\ UNCHANGED <<mvars, bvars>>

\* run_blocking returns to disconnect(), or re-raises out of it.
DisconnectReturn(t) ==
    /\ thr[t].at = "disconnect_done"
    /\ IF thr[t].res = "raise"
       THEN thr' = [thr EXCEPT ![t].at = "done", ![t].ret = "raised"]
       ELSE thr' = [thr EXCEPT ![t].at = "check"]
    /\ UNCHANGED <<_bleak_device, _bleak_client, link, lookups, pending_devices, resolutions>>
    /\ UNCHANGED <<mvars, bvars>>

\* disconnect(), the check after the call.
DisconnectCheck(t) ==
    /\ thr[t].at = "check"
    /\ thr' = [thr EXCEPT ![t].at = "done", ![t].ret = "returned",
                          ![t].hooks = @ \o DisconnectHooks(IsConnectedValue)]
    /\ UNCHANGED <<_bleak_device, _bleak_client, link, lookups, pending_devices, resolutions>>
    /\ UNCHANGED <<mvars, bvars>>

\* is_connected() after the client test: the value it returns.
IsConnectedBody(t) ==
    /\ thr[t].at = "body"
    /\ thr[t].op = "is_connected"
    /\ thr' = [thr EXCEPT ![t].at = "done", ![t].ret = "returned",
                          ![t].res = IsConnectedValue]
    /\ UNCHANGED <<_bleak_device, _bleak_client, link, lookups, pending_devices, resolutions>>
    /\ UNCHANGED <<mvars, bvars>>

\* ------------------------------------------------------------------ blocking bridge
\* The blocking calls the caller threads make through run_blocking.
BlockingOps == {"write_value", "read_value", "descriptor_read", "find_device"}

\* The byte strings a characteristic or descriptor holds and a caller writes.
GattValues == {"v1", "v2"}

\* The coroutine thread t hands to the loop.
OpCo(t) == [type |-> "op", id |-> 0, mgr |-> t]

\* manager.loop.stop, the callback stop() queues.
StopLoopCallback == [kind |-> "stop_loop", co |-> [type |-> "loop", id |-> 0, mgr |-> "none"]]

\* _managerLoopEvent.is_set(): the loop setter has published a loop.
LoopPublished == loopState # "none"

\* What the transport operation of op yields when it succeeds: the value read,
\* None for a write, the device or None for the lookup.
OpResults(op) ==
    IF op = "write_value" THEN {"none"}
    ELSE IF op = "find_device" THEN {"found", "None"}
    ELSE GattValues

\* run(), first statement: manager.loop = asyncio.new_event_loop(); the setter
\* sets the readiness event.
RunPublish ==
    /\ loopState = "none"
    /\ loopState' = "published"
    /\ UNCHANGED <<mvars, pending_devices, dvars, gatt>>

\* run(), second statement: manager.loop.run_forever().
RunForever ==
    /\ loopState = "published"
    /\ loopState' = "running"
    /\ UNCHANGED <<mvars, pending_devices, dvars, gatt>>

\* stop(): manager.loop.call_soon_threadsafe(manager.loop.stop). One stop
\* callback is queued at a time, and none once the loop has stopped.
StopCall ==
    /\ loopState \in {"published", "running"}
    /\ \A k \in 1 .. Len(ready) : ready[k] # StopLoopCallback
    /\ ready' = Append(ready, StopLoopCallback)
    /\ UNCHANGED <<_devices, _scanner_task, _stop_scanning_event, eventSet, waiters, task,
                   nextTask, callerPc, callerMgr, stopFut, lastStop, stoppedSince,
                   makeCalls, madeNone, nextDev, pending_devices, readvertised>>
    /\ UNCHANGED <<dvars, bvars>>

\* The loop runs loop.stop(): run_forever() returns at the end of the iteration.
LoopStopCallback ==
    /\ LoopRunning
    /\ ready # <<>>
    /\ Head(ready) = StopLoopCallback
    /\ ready' = Tail(ready)
    /\ loopState' = "stopping"
    /\ UNCHANGED <<_devices, _scanner_task, _stop_scanning_event, eventSet, waiters, task,
                   nextTask, callerPc, callerMgr, stopFut, lastStop, stoppedSince,
                   makeCalls, madeNone, nextDev, pending_devices, readvertised>>
    /\ UNCHANGED <<dvars, gatt>>

\* The iteration ends: run_forever() and run() return, the loop is not run again.
LoopExit ==
    /\ loopState = "stopping"
    /\ loopState' = "stopped"
    /\ UNCHANGED <<mvars, pending_devices, dvars, gatt>>

\* Thread t calls a blocking method: write_value(arg), read_value() of a
\* characteristic or of a descriptor, or the lookup behind a Device's first
\* access. Characteristics and descriptors come from a connected device, so
\* their calls need a loop that was published; the lookup does not.
BlockingCall(t, op, arg) ==
    /\ gatt[t].at \in {"idle", "done"}
    /\ op # "find_device" => LoopPublished
    /\ (arg # "none") = (op = "write_value")
    /\ gatt' = [gatt EXCEPT ![t] = [IdleCall EXCEPT !.op = op, !.at = "submit", !.arg = arg,
                                                    !.early = ~LoopPublished]]
    /\ UNCHANGED <<mvars, pending_devices, dvars, loopState>>

\* run_in_background: the manager.loop getter waits for the readiness event,
\* then run_coroutine_threadsafe queues the callback that creates the task.
RunInBackground(t) ==
    /\ gatt[t].at = "submit"
    /\ LoopPublished
    /\ ready' = Append(ready, [kind |-> "create", co |-> OpCo(t)])
    /\ gatt' = [gatt EXCEPT ![t].at = "wait_result", ![t].co = "queued"]
    /\ UNCHANGED <<_devices, _scanner_task, _stop_scanning_event, eventSet, waiters, task,
                   nextTask, callerPc, callerMgr, stopFut, lastStop, stoppedSince,
                   makeCalls, madeNone, nextDev, pending_devices, readvertised>>
    /\ UNCHANGED <<dvars, loopState>>

\* The task's first step on the loop: the coroutine starts its transport
\* operation and suspends.
OpFirstStep(t) ==
    /\ HeadIs("step", OpCo(t))
    /\ gatt[t].co = "queued"
    /\ ready' = Tail(ready)
    /\ gatt' = [gatt EXCEPT ![t].co = "started"]
    /\ UNCHANGED <<_devices, _scanner_task, _stop_scanning_event, eventSet, waiters, task,
                   nextTask, callerPc, callerMgr, stopFut, lastStop, stoppedSince,
                   makeCalls, madeNone, nextDev, pending_devices, readvertised>>
    /\ UNCHANGED <<dvars, loopState>>

\* The transport operation completes, with a result or a failure, and the
\* task's next step is queued.
TransportOp(t, ok, v) ==
    /\ gatt[t].co = "started"
    /\ v \in OpResults(gatt[t].op)
    /\ ready' = Append(ready, [kind |-> "step", co |-> OpCo(t)])
    /\ gatt' = [gatt EXCEPT ![t].co = "resumable",
                            ![t].out = IF ok THEN "ok" ELSE "fail",
                            ![t].val = IF ok THEN v ELSE "none"]
    /\ UNCHANGED <<_devices, _scanner_task, _stop_scanning_event, eventSet, waiters, task,
                   nextTask, callerPc, callerMgr, stopFut, lastStop, stoppedSince,
                   makeCalls, madeNone, nextDev, pending_devices, readvertised>>
    /\ UNCHANGED <<dvars, loopState>>

\* The task's last step on the loop: the coroutine ends and the caller's
\* future gets its result or its exception.
OpLastStep(t) ==
    /\ HeadIs("step", OpCo(t))
    /\ gatt[t].co = "resumable"
    /\ ready' = Tail(ready)
    /\ gatt' = [gatt EXCEPT ![t].co = "finished"]
    /\ UNCHANGED <<_devices, _scanner_task, _stop_scanning_event, eventSet, waiters, task,
                   nextTask, callerPc, callerMgr, stopFut, lastStop, stoppedSince,
                   makeCalls, madeNone, nextDev, pending_devices, readvertised>>
    /\ UNCHANGED <<dvars, loopState>>

\* future.result(): the caller waits until the future is done.
FutureDoneNoWait(t) == TRUE
FutureDone(t) == gatt[t].co = "finished"

\* future.result(): the result is returned, the exception is raised again.
RunBlockingOutcome(out) == IF out = "fail" THEN "raised" ELSE "returned"

\* run_blocking ends in thread t.
RunBlockingReturn(t) ==
    /\ gatt[t].at = "wait_result"
    /\ FutureDone(t)
    /\ gatt' = [gatt EXCEPT ![t].at = "epilogue", ![t].rb = RunBlockingOutcome(gatt[t].out)]
    /\ UNCHANGED <<mvars, pending_devices, dvars, loopState>>

\* Characteristic.write_value after run_blocking: one hook per outcome.
WriteHooksSucceededOnly(ok) == <<Hook("characteristic_write_value_succeeded", "")>>
WriteHooks(ok) ==
    IF ok THEN <<Hook("characteristic_write_value_succeeded", "")>>
          ELSE <<Hook("characteristic_write_value_failed", "error")>>

\* Characteristic.write_value returns result, which is None on either path.
WriteValueReturn(t) ==
    /\ gatt[t].at = "epilogue"
    /\ gatt[t].op = "write_value"
    /\ gatt' = [gatt EXCEPT ![t].at = "done", ![t].ret = "returned", ![t].retval = "none",
                            ![t].hooks = @ \o WriteHooks(gatt[t].rb = "returned")]
    /\ UNCHANGED <<mvars, pending_devices, dvars, loopState>>

\* Characteristic.read_value after run_blocking: the update hook with the value
\* on success, `pass` on failure.
ReadHooksOnFailureToo(ok, v) == <<Hook("characteristic_value_updated", v)>>
ReadHooks(ok, v) == IF ok THEN <<Hook("characteristic_value_updated", v)>> ELSE <<>>

\* Characteristic.read_value returns value: what was read, or the initial None.
ReadValueReturn(t) ==
    /\ gatt[t].at = "epilogue"
    /\ gatt[t].op = "read_value"
    /\ gatt' = [gatt EXCEPT ![t].at = "done", ![t].ret = "returned",
                            ![t].retval = IF gatt[t].rb = "returned" THEN gatt[t].val ELSE "none",
                            ![t].hooks = @ \o ReadHooks(gatt[t].rb = "returned", gatt[t].val)]
    /\ UNCHANGED <<mvars, pending_devices, dvars, loopState>>

\* Descriptor.read_value is `return run_blocking(...)`: it ends as run_blocking ends.
DescriptorReadOutcomeCaught(rb) == "returned"
DescriptorReadOutcome(rb) == rb

\* Descriptor.read_value, and the lookup statement of Device._bleak_device,
\* neither of which wraps run_blocking in a try.
PlainReturn(t) ==
    /\ gatt[t].at = "epilogue"
    /\ gatt[t].op \in {"descriptor_read", "find_device"}
    /\ gatt' = [gatt EXCEPT ![t].at = "done", ![t].ret = DescriptorReadOutcome(gatt[t].rb),
                            ![t].retval = gatt[t].val]
    /\ UNCHANGED <<mvars, pending_devices, dvars, loopState>>

\* ------------------------------------------------------------------ specifications
\* The loop thread: it runs the callback at the head of its ready queue.
LoopNext ==
    \/ LoopCreateTask
    \/ \E i \in TaskIds : ScanFirstStep(i)
    \/ \E i \in TaskIds : ScanAfterOpen(i)
    \/ \E i \in TaskIds : ScanAfterWake(i)
    \/ \E i \in TaskIds : ScanFinish(i)
    \/ StopCoroutineStep

\* The transport: a scanner start or stop that was requested completes.
TransportNext ==
    \/ \E i \in TaskIds, ok \in BOOLEAN : ScannerStarted(i, ok)
    \/ \E i \in TaskIds, ok \in BOOLEAN : ScannerStopped(i, ok)

\* Discovery control: one caller thread starting and stopping discovery on the
\* managers in any order, the loop and the transport; no advertisement arrives.
NextScan ==
    \/ \E m \in Managers : StartDiscovery(m)
    \/ \E m \in Managers : StopDiscoveryCall(m)
    \/ StopRunBlockingReturns
    \/ StopTaskResult
    \/ LoopCreateTask
    \/ \E i \in TaskIds : ScanFirstStep(i)
    \/ \E i \in TaskIds : ScanAfterOpen(i)
    \/ \E i \in TaskIds : ScanAfterWake(i)
    \/ \E i \in TaskIds : ScanFinish(i)
    \/ StopCoroutineStep
    \/ \E i \in TaskIds, ok \in BOOLEAN : ScannerStarted(i, ok)
    \/ \E i \in TaskIds, ok \in BOOLEAN : ScannerStopped(i, ok)

SpecScan == Init /\ [][NextScan]_vars

\* The loop runs every ready callback, every transport operation completes,
\* and a caller whose future is done continues.
FairScan ==
    /\ SpecScan
    /\ WF_vars(LoopNext)
    /\ WF_vars(TransportNext)
    /\ WF_vars(StopRunBlockingReturns)
    /\ WF_vars(StopTaskResult)

\* The manager whose discovery the registry specification follows.
OneManager == {"m1"}

\* Discovery of one manager with the advertisements its scanners deliver.
NextDiscovery ==
    \/ \E m \in OneManager : StartDiscovery(m)
    \/ \E m \in OneManager : StopDiscoveryCall(m)
    \/ StopRunBlockingReturns
    \/ StopTaskResult
    \/ LoopCreateTask
    \/ \E i \in TaskIds : ScanFirstStep(i)
    \/ \E i \in TaskIds : ScanAfterOpen(i)
    \/ \E i \in TaskIds : ScanAfterWake(i)
    \/ \E i \in TaskIds : ScanFinish(i)
    \/ StopCoroutineStep
    \/ \E i \in TaskIds, ok \in BOOLEAN : ScannerStarted(i, ok)
    \/ \E i \in TaskIds, ok \in BOOLEAN : ScannerStopped(i, ok)
    \/ \E i \in TaskIds, a \in Addresses, made \in {"Device", "None"} : Advertise(i, a, made)

SpecDiscovery == Init /\ [][NextDiscovery]_vars

\* The thread of the sequential Device specification.
SeqThreads == {"t1"}

\* One caller thread calling the methods of one Device one after the other.
NextDevice ==
    \/ \E t \in SeqThreads, op \in {"connect", "disconnect", "is_connected"} : DeviceCall(t, op)
    \/ \E t \in SeqThreads : ClientCached(t)
    \/ \E t \in SeqThreads : ClientFromDevice(t)
    \/ \E t \in SeqThreads : LookupSubmit(t)
    \/ \E t \in SeqThreads, outcome \in {"found", "None", "raise"} : FindDeviceByAddress(t, outcome)
    \/ \E t \in SeqThreads : LookupReturn(t)
    \/ \E t \in SeqThreads : LookupCount(t)
    \/ \E t \in SeqThreads : LookupStore(t)
    \/ \E t \in SeqThreads : ConnectBody(t)
    \/ \E t \in SeqThreads, ok \in BOOLEAN : TransportConnect(t, ok)
    \/ \E t \in SeqThreads : ConnectReturn(t)
    \/ \E t \in SeqThreads : DisconnectBody(t)
    \/ \E t \in SeqThreads, raises \in BOOLEAN, down \in BOOLEAN : TransportDisconnect(t, raises, down)
    \/ \E t \in SeqThreads : DisconnectReturn(t)
    \/ \E t \in SeqThreads : DisconnectCheck(t)
    \/ \E t \in SeqThreads : IsConnectedBody(t)

SpecDevice == InitOneDevice /\ [][NextDevice]_vars

\* The process from its start: no loop is published yet and no Device method
\* has run.
InitBridge ==
    /\ InitManager
    /\ InitDevice
    /\ pending_devices = 0
    /\ loopState = "none"

\* The loop thread running and stopping the loop, and the caller threads
\* making blocking calls at any time.
NextBridge ==
    \/ RunPublish
    \/ RunForever
    \/ StopCall
    \/ LoopStopCallback
    \/ LoopExit
    \/ LoopCreateTask
    \/ \E t \in Threads, op \in BlockingOps, arg \in GattValues \cup {"none"} : BlockingCall(t, op, arg)
    \/ \E t \in Threads : RunInBackground(t)
    \/ \E t \in Threads : OpFirstStep(t)
    \/ \E t \in Threads, ok \in BOOLEAN, v \in GattValues \cup {"none", "found", "None"} : TransportOp(t, ok, v)
    \/ \E t \in Threads : OpLastStep(t)
    \/ \E t \in Threads : RunBlockingReturn(t)
    \/ \E t \in Threads : WriteValueReturn(t)
    \/ \E t \in Threads : ReadValueReturn(t)
    \/ \E t \in Threads : PlainReturn(t)

SpecBridge == InitBridge /\ [][NextBridge]_vars

\* Several caller threads calling the methods of one Device at the same time.
NextDeviceThreads ==
    \/ \E t \in Threads, op \in {"connect", "disconnect", "is_connected"} : DeviceCall(t, op)
    \/ \E t \in Threads : ClientCached(t)
    \/ \E t \in Threads : ClientFromDevice(t)
    \/ \E t \in Threads : LookupSubmit(t)
    \/ \E t \in Threads, outcome \in {"found", "None", "raise"} : FindDeviceByAddress(t, outcome)
    \/ \E t \in Threads : LookupReturn(t)
    \/ \E t \in Threads : LookupCount(t)
    \/ \E t \in Threads : LookupStore(t)
    \/ \E t \in Threads : ConnectBody(t)
    \/ \E t \in Threads, ok \in BOOLEAN : TransportConnect(t, ok)
    \/ \E t \in Threads : ConnectReturn(t)
    \/ \E t \in Threads : DisconnectBody(t)
    \/ \E t \in Threads, raises \in BOOLEAN, down \in BOOLEAN : TransportDisconnect(t, raises, down)
    \/ \E t \in Threads : DisconnectReturn(t)
    \/ \E t \in Threads : DisconnectCheck(t)
    \/ \E t \in Threads : IsConnectedBody(t)

SpecDeviceThreads == InitOneDevice /\ [][NextDeviceThreads]_vars

\* ------------------------------------------------------------------ claims
\* C1: the registry never holds two Devices for one address: make_device is
\* called at most once per address, and once an address has an entry no
\* discovery callback calls make_device for it again or changes the entry.
C1_OneDevicePerAddress ==
    /\ [](\A a \in Addresses : makeCalls[a] <= 1)
    /\ [][\A a \in Addresses :
            _devices[a].kind # "nokey" =>
                /\ _devices'[a] = _devices[a]
                /\ makeCalls'[a] = makeCalls[a]]_vars

\* Both addresses are registered, one with a Device, and a further
\* advertisement of each has been delivered to the callback.
C1_Witness ==
    /\ \A a \in Addresses : readvertised[a] /\ makeCalls[a] = 1
    /\ \E a \in Addresses : _devices[a].kind = "Device"

\* C2: an address for which make_device returned None has no entry in the
\* registry, and devices() holds no None.
C2_NoneNotTracked ==
    /\ \A a \in Addresses : madeNone[a] => _devices[a].kind = "nokey"
    /\ \A m \in Managers : \A d \in devices(m) : d.kind # "None"

\* C3: stop_discovery() called after start_discovery() finds the Event of the
\* scan task it is about to wait for, never raises, and always returns with
\* the manager holding no scan task, in the first cycle and in every later one.
C3_StartStopTerminates ==
    /\ [](/\ ready # <<>>
          /\ Head(ready) \in {[kind |-> "step", co |-> StopCo(m)] : m \in Managers}
          /\ _scanner_task[Head(ready).co.mgr] # 0
          => _stop_scanning_event[Head(ready).co.mgr] = _scanner_task[Head(ready).co.mgr])
    /\ [](lastStop.outcome = "raised" => lastStop.task = 0)
    /\ \A m \in Managers :
          (callerPc # "idle" /\ callerMgr = m /\ _scanner_task[m] # 0)
              ~> (callerPc = "idle" /\ lastStop.mgr = m /\ lastStop.outcome = "returned"
                  /\ _scanner_task[m] = 0)

\* A second start/stop cycle of one manager has completed after a first one.
C3_Witness ==
    /\ MaxStarts >= 2
    /\ callerPc = "idle"
    /\ lastStop.outcome = "returned"
    /\ lastStop.task = 2
    /\ task[1].mgr = task[2].mgr
    /\ task[1].pc \in {"done", "failed"}
    /\ task[2].pc \in {"done", "failed"}
    /\ _scanner_task[lastStop.mgr] = 0

\* C4: once stop_discovery() of a manager has returned, and until its next
\* start_discovery(), no scanner of that manager is delivering advertisements
\* (so its discovery callback is not invoked and its registry does not change).
C4_NoAdvertisementAfterStop ==
    \A m \in Managers :
        stoppedSince[m] => \A i \in TaskIds : task[i].mgr = m => ~ScannerActive(i)

\* C5: when the scan task stop_discovery() waits for has failed, the call
\* returns normally with the failure logged, the manager holds no scan task,
\* nothing is submitted to the loop again and no hook is dispatched.
C5_ScanFailureOnlyLogged ==
    [][(/\ callerPc = "task_result"
        /\ callerPc' = "idle"
        /\ _scanner_task[callerMgr] # 0
        /\ task[_scanner_task[callerMgr]].pc = "failed")
       => (/\ lastStop'.outcome = "returned"
           /\ lastStop'.logged
           /\ _scanner_task'[callerMgr] = 0
           /\ ready' = ready
           /\ task' = task
           /\ nextTask' = nextTask
           /\ thr' = thr)]_vars

\* stop_discovery() has returned from waiting for a failed scan task.
C5_Witness ==
    /\ callerPc = "idle"
    /\ lastStop.outcome = "returned"
    /\ lastStop.taskFailed
    /\ lastStop.logged

\* C6: a connect() on a Device whose lookup yielded not-found returns with
\* connect_failed as its only hook and no transport connect submitted, and
\* the device is not connected before or after.
C6_NoHandleConnectFails ==
    /\ _bleak_device = "None" => ~link /\ ~Truthy(IsConnectedValue)
    /\ \A t \in Threads :
          (thr[t].op = "connect" /\ thr[t].at = "done" /\ _bleak_device = "None")
              => /\ thr[t].ret = "returned"
                 /\ thr[t].hooks = <<Hook("connect_failed", "No bleak client")>>
                 /\ thr[t].connects = 0
                 /\ ~thr[t].before
    /\ \A t \in Threads :
          (thr[t].op = "is_connected" /\ thr[t].at = "done" /\ _bleak_device = "None")
              => ~Truthy(thr[t].res)

\* connect() has returned on a Device whose lookup yielded not-found.
C6_Witness ==
    \E t \in Threads :
        /\ thr[t].op = "connect"
        /\ thr[t].at = "done"
        /\ _bleak_device = "None"
        /\ Len(thr[t].hooks) = 1

\* C7: a connect() whose transport connect succeeded returns with exactly
\* connect_succeeded then services_resolved as its hooks, and the device is
\* connected.
C7_ConnectSucceededThenResolved ==
    \A t \in Threads :
        (thr[t].op = "connect" /\ thr[t].at = "done" /\ thr[t].res = "ok")
            => /\ thr[t].ret = "returned"
               /\ thr[t].hooks = <<Hook("connect_succeeded", ""), Hook("services_resolved", "")>>
               /\ thr[t].connects = 1
               /\ Truthy(IsConnectedValue)

\* connect() has returned after a successful transport connect.
C7_Witness ==
    \E t \in Threads :
        /\ thr[t].op = "connect"
        /\ thr[t].at = "done"
        /\ thr[t].res = "ok"
        /\ link

\* C8: a connect() whose transport connect failed returns without raising,
\* with connect_failed carrying the error as its only hook, after a single
\* transport connect, and a device that was disconnected stays disconnected.
C8_ConnectFailureReported ==
    \A t \in Threads :
        (thr[t].op = "connect" /\ thr[t].at = "done" /\ thr[t].res = "fail")
            => /\ thr[t].ret = "returned"
               /\ thr[t].hooks = <<Hook("connect_failed", "error")>>
               /\ thr[t].connects = 1
               /\ ~thr[t].before => ~Truthy(IsConnectedValue)

\* connect() has returned after a failed transport connect on a device that
\* was not connected.
C8_Witness ==
    \E t \in Threads :
        /\ thr[t].op = "connect"
        /\ thr[t].at = "done"
        /\ thr[t].res = "fail"
        /\ ~thr[t].before
        /\ ~link

\* C9: a connect() called on a connected Device submits no transport connect
\* and invokes no hook.
C9_ConnectWhenConnectedIsNoOp ==
    \A t \in Threads :
        (thr[t].op = "connect" /\ thr[t].before)
            => /\ thr[t].connects = 0
               /\ thr[t].hooks = <<>>

\* C10 as claimed: every disconnect() call after which the device is not
\* connected has invoked disconnect_succeeded exactly once, and a call after
\* which it is connected has not invoked it.
C10_DisconnectAlwaysReports ==
    \A t \in Threads :
        (thr[t].op = "disconnect" /\ thr[t].at = "done")
            => thr[t].hooks = IF ~IsConnectedNow
                              THEN <<Hook("disconnect_succeeded", "")>> ELSE <<>>

\* C10 as amended: every disconnect() call that returns has invoked
\* disconnect_succeeded exactly once when the device is not connected after it
\* and not at all when it still is, with no transport disconnect submitted
\* for a Device without a handle; a call that raises has invoked no hook.
C10_DisconnectReportsOnReturn ==
    \A t \in Threads :
        (thr[t].op = "disconnect" /\ thr[t].at = "done")
            => /\ thr[t].ret = "returned"
                  => /\ thr[t].hooks = IF ~IsConnectedNow
                                       THEN <<Hook("disconnect_succeeded", "")>> ELSE <<>>
                     /\ _bleak_device = "None" => thr[t].disconnects = 0
               /\ thr[t].ret = "raised" => thr[t].hooks = <<>>

\* disconnect() has returned on a Device without a handle, on one that was
\* already disconnected, and on one the transport left connected.
C10_Witness ==
    \E t \in Threads :
        /\ thr[t].op = "disconnect"
        /\ thr[t].at = "done"
        /\ thr[t].ret = "returned"
        /\ \/ _bleak_device = "None"
           \/ _bleak_device = "found" /\ ~thr[t].before /\ Len(thr[t].hooks) = 1
           \/ link


\* C11: a write_value() call that has ended returned without raising and
\* invoked exactly one outcome hook: characteristic_write_value_succeeded when
\* the transport write succeeded, characteristic_write_value_failed with the
\* error when it failed; no hook is invoked before the outcome is known.
C11_WriteValueOneHook ==
    \A t \in Threads :
        gatt[t].op = "write_value" =>
            /\ gatt[t].at # "done" => gatt[t].hooks = <<>>
            /\ gatt[t].at = "done" =>
                /\ gatt[t].ret = "returned"
                /\ gatt[t].out \in {"ok", "fail"}
                /\ gatt[t].out = "ok" =>
                       gatt[t].hooks = <<Hook("characteristic_write_value_succeeded", "")>>
                /\ gatt[t].out = "fail" =>
                       gatt[t].hooks = <<Hook("characteristic_write_value_failed", "error")>>

\* One write has ended after a successful transport write, another after a
\* failed one.
C11_Witness ==
    /\ gatt["t1"].op = "write_value" /\ gatt["t1"].at = "done" /\ gatt["t1"].out = "ok"
    /\ gatt["t2"].op = "write_value" /\ gatt["t2"].at = "done" /\ gatt["t2"].out = "fail"

C14_RunBlockingWaits ==
    \A t \in Threads :
        /\ gatt[t].rb # "none" =>
            /\ gatt[t].co = "finished"
            /\ gatt[t].out \in {"ok", "fail"}
            /\ (gatt[t].rb = "raised") = (gatt[t].out = "fail")
        /\ gatt[t].at \in {"epilogue", "done"} => gatt[t].rb # "none"
        /\ ~LoopPublished =>
            /\ gatt[t].co = "none"
            /\ gatt[t].at \in {"idle", "submit"}

\* A call issued before run() published the loop has ended, after its
\* operation completed on the loop.
C14_Witness ==
    \E t \in Threads :
        /\ gatt[t].early
        /\ gatt[t].at = "done"
        /\ gatt[t].co = "finished"

\* C15: a stop_discovery() call made while the manager holds no scan task ends
\* by returning, not by raising, and leaves the manager idle.
C15_StopWhileIdleIsNoOp ==
    lastStop.outcome # "none" /\ lastStop.task = 0 =>
        /\ lastStop.outcome = "returned"
        /\ _scanner_task[lastStop.mgr] = 0

\* C16: at most one find_device_by_address lookup is ever submitted for the
\* Device.
C16_AtMostOneLookup == lookups <= 1

\* C17: the pending-device counter equals the number of Devices constructed
\* (one) minus the number whose handle resolution has finished, and is never
\* negative.
C17_PendingCounterExact ==
    /\ pending_devices = (IF resolutions > 0 THEN 0 ELSE 1)
    /\ pending_devices >= 0

\* C18: every scan task that has not ended is the one its manager holds in
\* _scanner_task and waits on the Event its manager holds in
\* _stop_scanning_event, so a manager has at most one and stop_discovery()
\* can cancel it.
C18_AtMostOneScanTask ==
    \A i \in TaskIds :
        task[i].pc \in {"created", "opening", "opened", "waiting"} =>
            /\ _scanner_task[task[i].mgr] = i
            /\ task[i].pc = "waiting" => _stop_scanning_event[task[i].mgr] = task[i].ev

\* C19: the registry of a manager holds only Devices that manager's own
\* discovery callback created.
C19_RegistryPerManager ==
    \A m \in Managers : \A d \in devices(m) : d.kind = "Device" => d.mgr = m

\* C20: no caller is blocked in run_blocking on an operation that nothing will
\* complete: with the loop stopped, every caller waiting for a result has a
\* finished operation.
C20_NoCallerBlockedForever ==
    \A t \in Threads :
        loopState = "stopped" /\ gatt[t].at = "wait_result" => gatt[t].co = "finished"

====
